---- MODULE Spec2Model ----
(***************************************************************************)
(* A model of the decky-spotify-connect-speaker backend (src/main.py and   *)
(* src/py_modules): the playback state kept in Plugin._now_playing, the    *)
(* notifications dispatched to Plugin._process_event, the background       *)
(* metadata and volume queries it schedules, the volume calls of the       *)
(* frontend, and the Unix-socket ingress that feeds it.                     *)
(*                                                                         *)
(* Conventions.  Python's None is the string None for scalar fields and    *)
(* the record NoTrack for the track.  A dict is a function whose domain    *)
(* is its set of keys.  Volumes are in tenths (1.0 is 10).  Every action   *)
(* records in last_step what it did: the operation, its input, and what    *)
(* it returned, published and scheduled.                                   *)
(***************************************************************************)
EXTENDS Integers, Sequences, FiniteSets, Bags, TLC

VARIABLES
    now_playing,     \* Plugin._now_playing
    fetch,           \* the bag of running _update_track_metadata_delayed tasks
    volq,            \* the bag of running _update_volume / get_volume / set_volume calls
    backend_volume,  \* the Volume property held by the backend
    socket_server,   \* Plugin._socket_server: None or "server"
    sock_file,       \* what is at SOCKET_PATH: "none", or the file of this server
                     \* ("ours"), of a process that is gone ("stale"), or of
                     \* another process that listens on it ("other")
    main,            \* Plugin._main: where it is, and how _start_socket_server ended
    conns,           \* connections accepted by the socket server, not yet handled
    outbox,          \* the decky.emit tasks _process_event created, not yet run
    seen_failure,    \* history: a connection has failed before
    hung_up,         \* history: the last notification processed was session_disconnected
    last_step        \* what the last action did

vars == <<now_playing, fetch, volq, backend_volume, socket_server, sock_file, main, conns,
          outbox, seen_failure, hung_up, last_step>>

(***************************************************************************)
(* Bounds of the model.                                                    *)
(***************************************************************************)
MaxFetch == 2       \* metadata-fetch sequences in flight at once
MaxVolQ == 2        \* volume calls in flight at once
MaxConns == 2       \* hook connections open at once
MaxPending == 2     \* publication tasks created and not yet run
MaxNames == 2       \* lines in the reply to ListNames
MaxNameLen == 2     \* parts of a bus name
MaxFields == 4      \* dict entries in a Metadata reply

(***************************************************************************)
(* Program constants.                                                      *)
(***************************************************************************)
MaxAttempts == 3        \* range(3) in _update_track_metadata_delayed
SettleDelay == 10       \* asyncio.sleep(1.0), in tenths of a second
Backoff == 5            \* asyncio.sleep(0.5), in tenths of a second
ReadBound == 4096       \* reader.read(4096)
VolumeMin == 0          \* max(0.0, ...)
VolumeMax == 10         \* min(1.0, ...)
DefaultVolume == 5      \* "volume": 0.5
UsPerMs == 1000         \* length_us // 1000

None == "None"
NoTrack == [none |-> TRUE]
NoEvent == [none |-> TRUE]
NoState == [none |-> TRUE]

\* dict.get(key, default)
Get(d, k, default) == IF k \in DOMAIN d THEN d[k] ELSE default

Min(S) == CHOOSE x \in S : \A y \in S : x <= y

\* The sequence s without its i-th element.
Drop(s, i) == [j \in 1..(Len(s) - 1) |-> IF j < i THEN s[j] ELSE s[j + 1]]

\* The bag b with one x more, with one x less, and with one x replaced by y.
Put(b, x) == b (+) SetToBag({x})
Take(b, x) == b (-) SetToBag({x})
Swap(b, x, y) == Put(Take(b, x), y)

(***************************************************************************)
(* The textual reply of dbus-send, as the sequence of its tokens:          *)
(* string "v", int64 n, uint64 n, and anything else.                       *)
(***************************************************************************)
Str(v) == [t |-> "string", v |-> v, n |-> 0]
I64(n) == [t |-> "int64", v |-> "", n |-> n]
U64(n) == [t |-> "uint64", v |-> "", n |-> n]
Other == [t |-> "other", v |-> "", n |-> 0]

\* marker in text, for the strings of the model: the only proper
\* containment among them is xesam:album in xesam:albumArtist.
Substring(marker, text) ==
    \/ text = marker
    \/ marker = "xesam:album" /\ text = "xesam:albumArtist"

\* artist.startswith('xesam:')
StartsWithXesam(v) ==
    v \in {"xesam:title", "xesam:artist", "xesam:album", "xesam:albumArtist"}

\* The places where the marker occurs in the reply.
MarkerPos(out, marker) ==
    {i \in 1..Len(out) : out[i].t = "string" /\ Substring(marker, out[i].v)}

\* 'marker' in output
HasMarker(out, marker) == MarkerPos(out, marker) # {}

\* output.split(marker)[1]: what lies between the first occurrence of the
\* marker and its second occurrence (or the end of the reply).
Section(out, marker) ==
    LET ps == MarkerPos(out, marker)
        p1 == Min(ps)
        p2 == IF ps \ {p1} = {} THEN Len(out) + 1 ELSE Min(ps \ {p1})
    IN  SubSeq(out, p1 + 1, p2 - 1)

IsString(tok) == tok.t = "string"
IsInt64(tok) == tok.t \in {"int64", "uint64"}

\* section.split('string "')[1:], each cut at its closing quote
StringsOf(section) ==
    LET toks == SelectSeq(section, IsString)
    IN  [i \in 1..Len(toks) |-> toks[i].v]

\* 'string "' in section
HasString(section) == StringsOf(section) # <<>>

\* section.split('string "')[1].split('"')[0]
FirstString(section) == StringsOf(section)[1]

\* The loop over the strings of the artist section: it appends while the
\* string is non-empty and does not start with xesam:, then breaks.
RECURSIVE ArtistRun(_)
ArtistRun(strs) ==
    IF strs = <<>> THEN <<>>
    ELSE IF Head(strs) # "" /\ ~StartsWithXesam(Head(strs))
         THEN <<Head(strs)>> \o ArtistRun(Tail(strs))
         ELSE <<>>

ParseArtists(out) == ArtistRun(StringsOf(Section(out, "xesam:artist")))

\* 'int64 ' in section or 'uint64 ' in section
HasInt64(section) == SelectSeq(section, IsInt64) # <<>>

\* int(section.split('int64 ')[1].split()[0]) // 1000
ParseLength(out) ==
    SelectSeq(Section(out, "mpris:length"), IsInt64)[1].n \div UsPerMs

ScalarMarker(k) ==
    CASE k = "name" -> "xesam:title"
      [] k = "album" -> "xesam:album"
      [] k = "cover_url" -> "mpris:artUrl"

\* The keys the parse of a reply assigns.
ParsedKeys(out) ==
    {k \in {"name", "album", "cover_url"} :
        HasMarker(out, ScalarMarker(k)) /\ HasString(Section(out, ScalarMarker(k)))}
    \cup (IF HasMarker(out, "xesam:artist") /\ ParseArtists(out) # <<>>
          THEN {"artists"} ELSE {})
    \cup (IF HasMarker(out, "mpris:length") /\ HasInt64(Section(out, "mpris:length"))
          THEN {"duration_ms"} ELSE {})

\* The parse of a reply: the fields it assigns and their values.
ParseMetadata(out) ==
    [k \in ParsedKeys(out) |->
        CASE k = "artists" -> ParseArtists(out)
          [] k = "duration_ms" -> ParseLength(out)
          [] OTHER -> FirstString(Section(out, ScalarMarker(k)))]

\* Faulty variant: the parsed record replaces the track, keeping only its id.
MergeTrackReplace(track, parsed) ==
    [k \in {"track_id"} \cup DOMAIN parsed |->
        IF k \in DOMAIN parsed THEN parsed[k] ELSE track[k]]

\* Faulty variant: the parse starts from an empty dict, which becomes the track.
MergeTrackParsedOnly(track, parsed) == parsed

\* track[k] = v for every parsed field, in the dict the state holds.
MergeTrack(track, parsed) ==
    [k \in DOMAIN track \cup DOMAIN parsed |->
        IF k \in DOMAIN parsed THEN parsed[k] ELSE track[k]]

\* An assignment into track raises when track is None.
MergeRaises(track, parsed) == track = NoTrack /\ DOMAIN parsed # {}

(***************************************************************************)
(* The replies the backend gives to a Metadata query.                      *)
(***************************************************************************)
ReplyFull ==
    << Other, Str("mpris:length"), I64(180000000),
       Str("xesam:title"), Str("Song A"),
       Str("xesam:artist"), Other, Str("X"), Str("Y"),
       Str("xesam:album"), Str("Album Z") >>

ReplyNoArtist ==
    << Other, Str("xesam:title"), Str("Song B"),
       Str("xesam:album"), Str("Album Q") >>

ReplyEmpty == << Other >>

\* A reply whose artist entry is followed by the length entry.
ReplyArtistThenLength ==
    << Other, Str("xesam:title"), Str("Song C"),
       Str("xesam:artist"), Other, Str("X"),
       Str("mpris:length"), I64(240000000) >>

Replies == {ReplyFull, ReplyNoArtist, ReplyEmpty, ReplyArtistThenLength}

(***************************************************************************)
(* Notifications.  A notification is the dict the hook sends: the key      *)
(* "event" and the fields of that event kind.                               *)
(***************************************************************************)
Ev(kind) == [event |-> kind]

ChangeEvents ==
    { [event |-> "change", track_id |-> "A", old_track_id |-> "", duration_ms |-> 200000],
      [event |-> "change", track_id |-> "B", old_track_id |-> "A"] }

PositionEvents ==
    { [event |-> k, position_ms |-> 7000, duration_ms |-> 200000] :
        k \in {"start", "pause", "playing", "paused"} }
    \cup {Ev("start")}

TrackChangedEvent ==
    [event |-> "track_changed", name |-> "Song A", artists |-> <<"X", "Y">>,
     album |-> "Album Z", cover_url |-> "http://cover", duration_ms |-> 180000]

SessionEvents ==
    { Ev("sessionconnected"), Ev("session_disconnected"),
      [event |-> "session_connected", user_name |-> "alice", connection_id |-> "c1"] }

OtherEvents ==
    { Ev("stop"), Ev("endoftrack"), Ev("stopped"), Ev("seeked"), [track_id |-> "A"] }

\* The notifications that leave the volume alone.
Events ==
    ChangeEvents \cup PositionEvents \cup {TrackChangedEvent} \cup SessionEvents
    \cup OtherEvents

\* The notification of a volume change.
VolumeEvents == {Ev("volumeset")}

\* event.get("event")
EventType(e) == Get(e, "event", None)

(***************************************************************************)
(* Plugin.__init__                                                         *)
(***************************************************************************)
InitialNowPlaying ==
    [connected |-> FALSE, user_name |-> None, connection_id |-> None,
     track |-> NoTrack, playback_state |-> "stopped", position_ms |-> 0,
     volume |-> DefaultVolume]

(***************************************************************************)
(* Plugin._process_event: the state it leaves, and the task it creates.    *)
(***************************************************************************)
ChangeTrack(e) ==
    [track_id |-> Get(e, "track_id", ""), duration_ms |-> Get(e, "duration_ms", 0)]

ProcessEventState(np, e) ==
    CASE EventType(e) = "change" ->
            [np EXCEPT !.connected = TRUE, !.track = ChangeTrack(e), !.position_ms = 0]
      [] EventType(e) = "start" ->
            [np EXCEPT !.connected = TRUE, !.playback_state = "playing",
                       !.position_ms = Get(e, "position_ms", 0)]
      [] EventType(e) = "pause" ->
            [np EXCEPT !.playback_state = "paused",
                       !.position_ms = Get(e, "position_ms", 0)]
      [] EventType(e) \in {"stop", "endoftrack"} ->
            [np EXCEPT !.playback_state = "stopped", !.position_ms = 0]
      [] EventType(e) = "sessionconnected" ->
            [np EXCEPT !.connected = TRUE]
      [] OTHER -> np

\* Faulty variant: any notification that carries a track id starts the sequence.
SpawnsFetchByTrackId(e) == "track_id" \in DOMAIN e

\* asyncio.create_task(self._update_track_metadata_delayed())
SpawnsFetch(e) == EventType(e) = "change"

\* asyncio.create_task(self._update_volume())
SpawnsVolume(e) == EventType(e) = "volumeset"

Spawned(e) ==
    IF SpawnsFetch(e) THEN "fetch" ELSE IF SpawnsVolume(e) THEN "volume" ELSE "none"

\* A metadata-fetch sequence as it starts: asleep for the settle delay.
\* for_track is the track id the scheduling notification set, slept the
\* time the sequence has spent in asyncio.sleep so far.
NewFetch(e) ==
    [pc |-> "settle", attempt |-> 0, for_track |-> Get(e, "track_id", ""), slept |-> 0]

\* A volume call as it starts: discovering the bus name, then exchanging.
\* input is the argument of the call, arg the value the call sends, res and
\* val the outcome of its exchange.
NewCall(kind, input, arg) ==
    [kind |-> kind, pc |-> "calling", input |-> input, arg |-> arg,
     res |-> "none", val |-> 0]

\* What the peer of a connection writes before it closes: a document of
\* docLen bytes (a JSON record holding event, some other JSON value, text
\* that is no JSON, or bytes that are no UTF-8) and trailLen bytes after it
\* (white space or anything else).  A silent peer writes nothing and stays.
Payload(doc, e, docLen, trail, trailLen) ==
    [doc |-> doc, event |-> e, docLen |-> docLen, trail |-> trail, trailLen |-> trailLen]

NoPayload == Payload("none", NoEvent, 0, "none", 0)

\* What an action writes to last_step.
Step(op) ==
    [op |-> op, event |-> NoEvent, ok |-> TRUE, emitted |-> FALSE, spawned |-> "none",
     reply |-> <<>>, for_track |-> "", attempt |-> 0, kind |-> "none", input |-> 0,
     arg |-> 0, val |-> 0, payload |-> NoPayload, got |-> 0, decoded |-> "none",
     after_failure |-> FALSE, turn |-> 0, slot |-> 0, sent |-> NoState,
     written |-> FALSE, exchange |-> "none", file |-> "none", names |-> <<>>,
     found |-> <<>>, fields |-> <<>>, parsed |-> NoState, slept |-> 0]

\* The publication tasks after a step that took the state from np to np2:
\* each holds the state object itself, and written tells that the object
\* was written to since the task was created.
Written(ob, np, np2) ==
    IF np2 = np THEN ob ELSE [i \in DOMAIN ob |-> [ob[i] EXCEPT !.written = TRUE]]

\* Faulty variant: only the recognised kinds publish.
PublishesKnownOnly(e) ==
    EventType(e) \in {"change", "start", "pause", "stop", "endoftrack",
                      "sessionconnected", "volumeset"}

\* asyncio.create_task(decky.emit("now_playing", self._now_playing)) is the
\* last statement of _process_event, after the branches on the kind.
Publishes(e) == TRUE

\* The effect of _process_event(e) on the state and on the tasks; the last
\* line of it creates the task that publishes the state.
ProcessEvent(e) ==
    /\ SpawnsFetch(e) => BagCardinality(fetch) < MaxFetch
    /\ SpawnsVolume(e) => BagCardinality(volq) < MaxVolQ
    /\ Publishes(e) => Len(outbox) < MaxPending
    /\ now_playing' = ProcessEventState(now_playing, e)
    /\ outbox' = IF Publishes(e)
                 THEN Append(Written(outbox, now_playing, now_playing'),
                             [written |-> FALSE])
                 ELSE Written(outbox, now_playing, now_playing')
    /\ hung_up' = (EventType(e) = "session_disconnected")
    /\ fetch' = IF SpawnsFetch(e) THEN Put(fetch, NewFetch(e)) ELSE fetch
    /\ volq' = IF SpawnsVolume(e) THEN Put(volq, NewCall("update", 0, 0)) ELSE volq

\* A notification reaches _process_event.
Dispatch(e) ==
    /\ ProcessEvent(e)
    /\ last_step' = [Step("event") EXCEPT !.event = e, !.emitted = Publishes(e),
                                          !.spawned = Spawned(e)]
    /\ UNCHANGED <<sock_file, main, backend_volume, socket_server, conns, seen_failure>>

\* The oldest publication task runs: decky.emit sends the state as the
\* state object holds it now.  Tasks start in the order of their creation.
EmitRun ==
    /\ outbox # <<>>
    /\ outbox' = Tail(outbox)
    /\ last_step' = [Step("emit") EXCEPT !.emitted = TRUE, !.sent = now_playing,
                                         !.written = Head(outbox).written]
    /\ UNCHANGED <<sock_file, main, hung_up, now_playing, fetch, volq, backend_volume, socket_server, conns,
                   seen_failure>>

(***************************************************************************)
(* Plugin._update_track_metadata_delayed and Plugin._update_track_metadata *)
(***************************************************************************)
\* The outcomes of an attempt's calls on the bus: _get_mpris_bus_name finds
\* no bus name, or the Metadata exchange ends with a non-zero return code,
\* or it replies.
FetchOutcomes ==
    {<<"nobus", <<>>>>, <<"failed", <<>>>>} \cup {<<"reply", r>> : r \in Replies}

\* Faulty variant: the loop starts without the sleep before it.
SleptAtWakeNone(t) == t.slept

\* await asyncio.sleep(1.0) has returned.
SleptAtWake(t) == t.slept + SettleDelay

\* asyncio.sleep(1.0) is over: the loop starts its first attempt.
FetchWake(t) ==
    /\ t.pc = "settle"
    /\ fetch' = Swap(fetch, t, [t EXCEPT !.pc = "attempt", !.attempt = 1,
                                         !.slept = SleptAtWake(t)])
    /\ last_step' = [Step("fetch_wake") EXCEPT !.for_track = t.for_track, !.attempt = 1,
                                               !.slept = SleptAtWake(t)]
    /\ UNCHANGED <<sock_file, main, hung_up, outbox, now_playing, volq, backend_volume, socket_server, conns, seen_failure>>

\* Whether the attempt returns True.
MergeSucceeds(track, outcome) ==
    outcome[1] = "reply" /\ ~MergeRaises(track, ParseMetadata(outcome[2]))

\* Faulty variant: an attempt that failed clears the track.
MergedTrackOrNone(track, outcome) ==
    IF MergeSucceeds(track, outcome) /\ track # NoTrack
    THEN MergeTrack(track, ParseMetadata(outcome[2]))
    ELSE IF outcome[1] = "reply" THEN track ELSE NoTrack

\* The track after the attempt.
MergedTrack(track, outcome) ==
    IF MergeSucceeds(track, outcome) /\ track # NoTrack
    THEN MergeTrack(track, ParseMetadata(outcome[2]))
    ELSE track

\* Faulty variant: a merge that succeeded resets the position, as a track change does.
MergedStateResetsPosition(np, outcome) ==
    IF MergeSucceeds(np.track, outcome)
    THEN [np EXCEPT !.track = MergedTrack(np.track, outcome), !.position_ms = 0]
    ELSE np

\* self._now_playing["track"] = track is the only store of the attempt.
MergedState(np, outcome) == [np EXCEPT !.track = MergedTrack(np.track, outcome)]

\* An attempt of _update_track_metadata runs to its end: after a reply it
\* parses the reply into the track the state holds now, publishes and
\* returns True, which ends the sequence; a failure makes the loop sleep 0.5.
FetchAttempt(t, outcome) ==
    /\ t.pc = "attempt"
    /\ now_playing' = MergedState(now_playing, outcome)
    /\ fetch' = IF MergeSucceeds(now_playing.track, outcome)
                THEN Take(fetch, t)
                ELSE Swap(fetch, t, [t EXCEPT !.pc = "backoff"])
    /\ last_step' = [Step("merge") EXCEPT !.ok = MergeSucceeds(now_playing.track, outcome),
                                          !.emitted = MergeSucceeds(now_playing.track, outcome),
                                          !.decoded = outcome[1],
                                          !.reply = outcome[2],
                                          !.for_track = t.for_track,
                                          !.attempt = t.attempt,
                                          !.slept = t.slept]
    /\ outbox' = Written(outbox, now_playing, now_playing')
    /\ UNCHANGED <<sock_file, main, hung_up, volq, backend_volume, socket_server, conns, seen_failure>>

\* Faulty variant: the loop goes round once more than range(3).
FetchBackoffOnceMore(t) ==
    /\ t.pc = "backoff"
    /\ fetch' = IF t.attempt < MaxAttempts + 1
                THEN Swap(fetch, t, [t EXCEPT !.pc = "attempt", !.attempt = t.attempt + 1,
                                              !.slept = t.slept + Backoff])
                ELSE Take(fetch, t)
    /\ last_step' = [Step("fetch_backoff") EXCEPT !.for_track = t.for_track,
                                                  !.attempt = t.attempt,
                                                  !.slept = t.slept + Backoff]
    /\ UNCHANGED <<sock_file, main, hung_up, outbox, now_playing, volq, backend_volume, socket_server, conns, seen_failure>>

\* asyncio.sleep(0.5) is over: the next attempt of range(3), or the end.
FetchBackoff(t) ==
    /\ t.pc = "backoff"
    /\ fetch' = IF t.attempt < MaxAttempts
                THEN Swap(fetch, t, [t EXCEPT !.pc = "attempt", !.attempt = t.attempt + 1,
                                              !.slept = t.slept + Backoff])
                ELSE Take(fetch, t)
    /\ last_step' = [Step("fetch_backoff") EXCEPT !.for_track = t.for_track,
                                                  !.attempt = t.attempt,
                                                  !.slept = t.slept + Backoff]
    /\ UNCHANGED <<sock_file, main, hung_up, outbox, now_playing, volq, backend_volume, socket_server, conns, seen_failure>>

(***************************************************************************)
(* Plugin.set_volume, Plugin.get_volume and Plugin._update_volume          *)
(***************************************************************************)
Max2(a, b) == IF a >= b THEN a ELSE b
Min2(a, b) == IF a <= b THEN a ELSE b

\* Faulty variant: the lower limit is forgotten.
ClampUpperOnly(v) == Min2(VolumeMax, v)

\* volume = max(0.0, min(1.0, float(volume)))
Clamp(v) == Max2(VolumeMin, Min2(VolumeMax, v))

\* The arguments the frontend passes to set_volume, and the values the
\* backend may hold: get_volume takes whatever double the reply prints, so
\* one of them lies above the range.
VolumeInputs == {-2, 0, 3, 10, 15}
BackendVolumes == {0, 7, 10, 12}

\* The frontend calls set_volume(v): the call clamps and starts discovery.
SetVolumeCall(v) ==
    /\ BagCardinality(volq) < MaxVolQ
    /\ volq' = Put(volq, NewCall("set", v, Clamp(v)))
    /\ last_step' = [Step("set_volume_call") EXCEPT !.kind = "set", !.input = v,
                                                    !.arg = Clamp(v)]
    /\ UNCHANGED <<sock_file, main, hung_up, outbox, now_playing, fetch, backend_volume, socket_server, conns, seen_failure>>

\* The frontend calls get_volume().
GetVolumeCall ==
    /\ BagCardinality(volq) < MaxVolQ
    /\ volq' = Put(volq, NewCall("get", 0, 0))
    /\ last_step' = [Step("get_volume_call") EXCEPT !.kind = "get"]
    /\ UNCHANGED <<sock_file, main, hung_up, outbox, now_playing, fetch, backend_volume, socket_server, conns, seen_failure>>

\* The outcomes of a call's exchanges with the bus: _get_mpris_bus_name
\* finds no bus name; Properties.Set succeeds or fails; Properties.Get
\* fails, or replies with the backend's volume, or replies with no double
\* in it; either may raise instead.
ExchangeOutcomes(kind) ==
    IF kind = "set" THEN {"nobus", "ok", "failed", "raised"}
    ELSE {"nobus", "value", "failed", "nodouble", "raised"}

\* The bus answers a volume call: a successful Set takes effect at the
\* backend, a Get reads the backend's volume.
VolExchange(c, res) ==
    /\ c.pc = "calling"
    /\ res \in ExchangeOutcomes(c.kind)
    /\ volq' = Swap(volq, c, [c EXCEPT !.pc = "answered", !.res = res,
                                       !.val = IF res = "value" THEN backend_volume ELSE 0])
    /\ backend_volume' = IF res = "ok" THEN c.arg ELSE backend_volume
    /\ last_step' = [Step("volume_exchange") EXCEPT !.kind = c.kind,
                                                    !.ok = res \in {"ok", "value"},
                                                    !.decoded = res,
                                                    !.input = c.input, !.arg = c.arg]
    /\ UNCHANGED <<sock_file, main, hung_up, outbox, now_playing, fetch, socket_server, conns, seen_failure>>

\* Faulty variant: set_volume stores its argument before looking at the return code.
StoredVolumeUnchecked(c, stored) ==
    CASE c.kind = "set" -> c.arg
      [] c.res = "value" -> c.val
      [] OTHER -> stored

\* Faulty variant: a get_volume that failed returns the default and not the stored volume.
StoredVolumeOrDefault(c, stored) ==
    CASE c.res = "ok" -> c.arg
      [] c.res = "value" -> c.val
      [] c.kind = "set" -> stored
      [] OTHER -> DefaultVolume

\* The volume a resumed call stores: set_volume its clamped argument,
\* get_volume (and so _update_volume) the value read; a failed call nothing.
StoredVolume(c, stored) ==
    CASE c.res = "ok" -> c.arg
      [] c.res = "value" -> c.val
      [] OTHER -> stored

\* Whether the resumed call publishes: set_volume when it succeeded,
\* _update_volume always, get_volume never.
CallEmits(c) == (c.kind = "set" /\ c.res = "ok") \/ c.kind = "update"

\* A volume call resumes after its exchange and returns: set_volume stores
\* and publishes on success and returns False otherwise; get_volume stores
\* the value read; _update_volume publishes whatever get_volume returned.
VolResume(c) ==
    /\ c.pc = "answered"
    /\ now_playing' = [now_playing EXCEPT !.volume = StoredVolume(c, now_playing.volume)]
    /\ volq' = Take(volq, c)
    /\ last_step' = [Step("volume_return") EXCEPT
                        !.kind = c.kind, !.ok = c.res \in {"ok", "value"},
                        !.decoded = c.res, !.emitted = CallEmits(c),
                        !.input = c.input, !.arg = c.arg,
                        !.val = StoredVolume(c, now_playing.volume)]
    /\ outbox' = Written(outbox, now_playing, now_playing')
    /\ UNCHANGED <<sock_file, main, hung_up, fetch, backend_volume, socket_server, conns, seen_failure>>

\* The volume changes at the backend (the user turns it in another client).
BackendVolumeChange(v) ==
    /\ backend_volume # v
    /\ backend_volume' = v
    /\ last_step' = [Step("backend_volume") EXCEPT !.val = v]
    /\ UNCHANGED <<sock_file, main, hung_up, outbox, now_playing, fetch, volq, socket_server, conns, seen_failure>>

(***************************************************************************)
(* The socket server: Plugin._start_socket_server and                      *)
(* Plugin._handle_event_connection.                                         *)
(***************************************************************************)
StartEvent == [event |-> "start", position_ms |-> 7000, duration_ms |-> 200000]

\* What a peer may write.  The hook writes one record and closes.
Payloads ==
    { Payload("record", StartEvent, 60, "none", 0),
      Payload("record", Ev("sessionconnected"), 29, "none", 0),
      Payload("record", Ev("pause"), ReadBound, "none", 0),
      Payload("record", StartEvent, ReadBound + 904, "none", 0),
      Payload("record", StartEvent, 60, "space", ReadBound),
      Payload("nonrecord", NoEvent, 6, "none", 0),
      Payload("badjson", NoEvent, 10, "none", 0),
      Payload("badutf8", NoEvent, 10, "none", 0),
      Payload("empty", NoEvent, 0, "none", 0),
      Payload("silent", NoEvent, 0, "none", 0) }

TotalLen(p) == p.docLen + p.trailLen

\* The sizes of the first segment of the payload to arrive.
FirstSegments(p) ==
    IF TotalLen(p) = 0 THEN {0}
    ELSE {n \in {1, p.docLen, TotalLen(p)} : 1 <= n /\ n <= TotalLen(p)}

\* json.loads(data.decode()) of the first got bytes of the payload: white
\* space after the document is accepted, anything else after it is not, and
\* a document cut short is no JSON.
Decode(p, got) ==
    IF got = 0 THEN "empty"
    ELSE IF p.doc \in {"badutf8", "badjson"} THEN "error"
    ELSE IF got < p.docLen THEN "error"
    ELSE IF got > p.docLen /\ p.trail # "space" THEN "error"
    ELSE p.doc

\* _main up to its call of _start_socket_server: when the event handler
\* cannot be deployed, _main returns and the server is never started.
MainDeploy(ok) ==
    /\ main.pc = "load"
    /\ main' = [main EXCEPT !.pc = IF ok THEN "start" ELSE "done"]
    /\ last_step' = [Step("main_deploy") EXCEPT !.ok = ok]
    /\ UNCHANGED <<now_playing, fetch, volq, backend_volume, socket_server, sock_file,
                   conns, outbox, seen_failure, hung_up>>

\* Another process leaves a socket file at SOCKET_PATH: one that is gone
\* (stale) or one that listens on it (other).
PathTaken(f) ==
    /\ sock_file = "none"
    /\ f \in {"stale", "other"}
    /\ sock_file' = f
    /\ last_step' = [Step("path_taken") EXCEPT !.decoded = f]
    /\ UNCHANGED <<now_playing, fetch, volq, backend_volume, socket_server, main,
                   conns, outbox, seen_failure, hung_up>>

\* How _start_socket_server may end: it binds (ok); DATA_DIR.mkdir or
\* SOCKET_PATH.unlink raises (early); asyncio.start_unix_server raises
\* after the file that was there has been removed (bind).
StartOutcomes == {"ok", "early", "bind"}

\* if SOCKET_PATH.exists(): SOCKET_PATH.unlink() removes whatever file is
\* there; then the server binds its own.
FileAfterStart(f, out) ==
    CASE out = "ok" -> "ours"
      [] out = "bind" -> "none"
      [] OTHER -> f

\* Faulty variant: a failure of _start_socket_server reaches _main, which logs it and
\* returns.
MainAfterStartRaises(out) == IF out = "ok" THEN "setup" ELSE "done"

\* _start_socket_server catches every Exception and logs it: _main goes on
\* to its next step whatever happened.
MainAfterStart(out) == "setup"

\* _start_socket_server: the server is stored when binding succeeded; a
\* failure is logged.
StartServer(out) ==
    /\ main.pc = "start"
    /\ out \in StartOutcomes
    /\ socket_server' = IF out = "ok" THEN "server" ELSE socket_server
    /\ sock_file' = FileAfterStart(sock_file, out)
    /\ main' = [pc |-> MainAfterStart(out),
                server |-> IF out = "ok" THEN "ok" ELSE "failed"]
    /\ last_step' = [Step("start_server") EXCEPT !.ok = (out = "ok"), !.decoded = out]
    /\ UNCHANGED <<now_playing, fetch, volq, backend_volume, conns, outbox,
                   seen_failure, hung_up>>

\* The steps of _main after _start_socket_server: the config files, the
\* wrapper script, the service; any of them may fail, which ends _main.
MainRest(ok) ==
    /\ main.pc = "setup"
    /\ main' = [main EXCEPT !.pc = "done"]
    /\ last_step' = [Step("main_rest") EXCEPT !.ok = ok]
    /\ UNCHANGED <<now_playing, fetch, volq, backend_volume, socket_server, sock_file,
                   conns, outbox, seen_failure, hung_up>>

\* Faulty variant: _stop_socket_server closes the server and keeps it stored.
ServerAfterStopKept(server) == server

\* self._socket_server = None, after close() and wait_closed().
ServerAfterStop(server) == None

\* The file at SOCKET_PATH after _stop_socket_server: SOCKET_PATH.unlink()
\* removes whatever is there; when it raises, that is ignored, and a file
\* of this server stays behind with no listener.
FileAfterStop(f, removed) ==
    IF removed THEN "none" ELSE IF f = "ours" THEN "stale" ELSE f

\* _stop_socket_server (called by _unload): a stored server is closed and
\* forgotten; then the file at SOCKET_PATH, if there is one, is removed.
\* The handlers of the connections accepted before go on.
StopServer(removed) ==
    /\ sock_file = "none" => removed
    /\ socket_server' = IF socket_server # None THEN ServerAfterStop(socket_server)
                        ELSE socket_server
    /\ sock_file' = FileAfterStop(sock_file, removed)
    /\ last_step' = [Step("stop_server") EXCEPT
                        !.decoded = IF socket_server # None THEN "closed" ELSE "idle",
                        !.file = IF sock_file = "none" THEN "absent"
                                 ELSE IF removed THEN "removed" ELSE "kept"]
    /\ UNCHANGED <<now_playing, fetch, volq, backend_volume, main, conns, outbox,
                   seen_failure, hung_up>>

(***************************************************************************)
(* The transport controls: Plugin.play_pause, next_track, previous_track   *)
(* and Plugin._run_dbus_send.                                               *)
(***************************************************************************)
ControlMethods == {"PlayPause", "Next", "Previous"}

\* How the two bus calls of _run_dbus_send may end: _get_mpris_bus_name
\* finds a bus name or returns None (it catches its own errors); then the
\* method call ends with return code zero, or non-zero, or raises.
ControlOutcomes ==
    { [bus |-> "none", exchange |-> "notrun"] }
    \cup { [bus |-> "found", exchange |-> x] : x \in {"zero", "nonzero", "raised"} }

\* Faulty variant: the return code of the method call is not looked at.
ControlResultUnchecked(o) == o.bus = "found" /\ o.exchange # "raised"

\* What _run_dbus_send returns.
ControlResult(o) == o.bus = "found" /\ o.exchange = "zero"

\* play_pause, next_track or previous_track is called and returns what
\* _run_dbus_send returned.
Control(method, o) ==
    /\ method \in ControlMethods
    /\ o \in ControlOutcomes
    /\ last_step' = [Step("control") EXCEPT !.kind = method, !.ok = ControlResult(o),
                                            !.decoded = o.bus, !.exchange = o.exchange]
    /\ UNCHANGED <<now_playing, fetch, volq, backend_volume, socket_server, sock_file,
                   main, conns, outbox, seen_failure, hung_up>>

\* The server accepts a connection and starts its handler.
Accept(p) ==
    /\ socket_server # None
    /\ Len(conns) < MaxConns
    /\ conns' = Append(conns, [payload |-> p, pc |-> "reading", got |-> 0,
                               after_failure |-> seen_failure, turn |-> 0])
    /\ last_step' = [Step("accept") EXCEPT !.payload = p]
    /\ UNCHANGED <<sock_file, main, hung_up, outbox, now_playing, fetch, volq, backend_volume, socket_server, seen_failure>>

\* The handlers that have called writer.close() and wait in
\* writer.wait_closed().
Closing(cs) == {j \in DOMAIN cs : cs[j].pc = "closing"}

\* Faulty variant: the handlers resume from wait_closed in any order.
ResumesAnyOrder(cs, i) == i \in Closing(cs)

\* await writer.wait_closed(): the handler never writes, so writer.close()
\* schedules the end of the connection at once, and the handlers resume in
\* the order in which they called it.  turn is a handler's place in that
\* order.
Resumes(cs, i) ==
    /\ i \in Closing(cs)
    /\ \A j \in Closing(cs) : cs[i].turn <= cs[j].turn

\* The connections without the i-th, whose handler ended: the handlers
\* that wait behind it move up.
Leave(cs, i) ==
    [j \in 1..(Len(cs) - 1) |->
        LET c == IF j < i THEN cs[j] ELSE cs[j + 1]
        IN  IF cs[i].pc = "closing" /\ c.pc = "closing" /\ c.turn > cs[i].turn
            THEN [c EXCEPT !.turn = c.turn - 1]
            ELSE c]

\* data = await reader.read(4096): the first segment, at most 4096 bytes
\* of it; nothing at the end of the stream.  writer.close() follows in the
\* same step of the handler.
Read(i, n) ==
    /\ conns[i].pc = "reading"
    /\ conns[i].payload.doc # "silent"
    /\ n \in FirstSegments(conns[i].payload)
    /\ conns' = [conns EXCEPT ![i].pc = "closing", ![i].got = Min2(ReadBound, n),
                              ![i].turn = Cardinality(Closing(conns)) + 1]
    /\ last_step' = [Step("read") EXCEPT !.payload = conns[i].payload,
                                         !.got = Min2(ReadBound, n)]
    /\ UNCHANGED <<sock_file, main, hung_up, outbox, now_playing, fetch, volq, backend_volume, socket_server, seen_failure>>

\* Faulty variant: the error is not caught in the handler and takes the server down.
ReadErrorStopsServer(i) ==
    /\ conns[i].pc = "reading"
    /\ conns' = Drop(conns, i)
    /\ seen_failure' = TRUE
    /\ socket_server' = None
    /\ last_step' = [Step("conn_done") EXCEPT !.ok = FALSE, !.decoded = "raised",
                                              !.payload = conns[i].payload,
                                              !.after_failure = conns[i].after_failure]
    /\ UNCHANGED <<sock_file, main, hung_up, outbox, now_playing, fetch, volq, backend_volume>>

\* reader.read raises (the peer reset the connection): the handler logs it.
ReadError(i) ==
    /\ conns[i].pc = "reading"
    /\ conns' = Drop(conns, i)
    /\ seen_failure' = TRUE
    /\ last_step' = [Step("conn_done") EXCEPT !.ok = FALSE, !.decoded = "raised",
                                              !.payload = conns[i].payload,
                                              !.after_failure = conns[i].after_failure]
    /\ UNCHANGED <<sock_file, main, hung_up, outbox, now_playing, fetch, volq, backend_volume, socket_server>>

\* The connection is closed and the handler goes on: no data, nothing;
\* data that does not decode, logged; a record, _process_event; any other
\* JSON value, _process_event raises at event.get and that is logged.
Finish(i) ==
    LET c == conns[i]
        d == Decode(c.payload, c.got)
    IN  /\ Resumes(conns, i)
        /\ conns' = Leave(conns, i)
        /\ IF d = "record"
           THEN /\ ProcessEvent(c.payload.event)
                /\ UNCHANGED seen_failure
           ELSE /\ seen_failure' = (seen_failure \/ d # "empty")
                /\ UNCHANGED <<now_playing, fetch, volq, outbox, hung_up>>
        /\ last_step' = [Step("conn_done") EXCEPT
                            !.ok = (d = "record"), !.decoded = d,
                            !.event = IF d = "record" THEN c.payload.event ELSE NoEvent,
                            !.emitted = (d = "record" /\ Publishes(c.payload.event)),
                            !.spawned = IF d = "record" THEN Spawned(c.payload.event)
                                        ELSE "none",
                            !.payload = c.payload, !.got = c.got,
                            !.after_failure = c.after_failure,
                            !.turn = c.turn, !.slot = i]
        /\ UNCHANGED <<backend_volume, socket_server, sock_file, main>>

(***************************************************************************)
(* Plugin._get_mpris_bus_name.  A line of the reply to ListNames is a      *)
(* quoted string or something else; its text is a sequence of parts, each   *)
(* the text of MPRIS_BUS_NAME_PREFIX ("prefix") or some other text ("x").  *)
(***************************************************************************)
NameParts == {"prefix", "x"}

Texts == UNION {[1..n -> NameParts] : n \in 1..MaxNameLen}

Lines == [string : BOOLEAN, text : Texts]

NameLists == UNION {[1..n -> Lines] : n \in 0..MaxNames}

\* No bus name: None.
NoName == <<>>

\* MPRIS_BUS_NAME_PREFIX in line
ContainsPrefix(text) == \E i \in DOMAIN text : text[i] = "prefix"

\* The lines the loop stops at.
Matching(lines) ==
    {i \in DOMAIN lines : ContainsPrefix(lines[i].text) /\ lines[i].string}

\* _get_mpris_bus_name: None when dbus-send fails; else the quoted string
\* of the first line that holds the prefix and a quoted string; None when
\* there is no such line.
GetBusName(rc, lines) ==
    IF rc # 0 \/ Matching(lines) = {} THEN NoName
    ELSE lines[Min(Matching(lines))].text

\* A discovery runs against a bus that holds the names of the lines.
Discover(rc, lines) ==
    /\ last_step.op = "init"
    /\ last_step' = [Step("discover") EXCEPT !.ok = (GetBusName(rc, lines) # NoName),
                                             !.val = rc, !.names = lines,
                                             !.found = GetBusName(rc, lines)]
    /\ UNCHANGED <<now_playing, fetch, volq, backend_volume, socket_server, sock_file,
                   main, conns, outbox, seen_failure, hung_up>>

(***************************************************************************)
(* The Metadata replies of the backend, entry by entry.  The backend keeps *)
(* the entries in a hash map, so they come in any order.                    *)
(***************************************************************************)
\* titleOdd is a title entry whose value is no string.
FieldKeys == {"title", "titleOdd", "artist", "album", "length", "albumArtist", "artUrl"}

\* The tokens of a dict entry: the key, then its value.
FieldTokens(k) ==
    CASE k = "title" -> <<Str("xesam:title"), Str("Song A")>>
      [] k = "titleOdd" -> <<Str("xesam:title"), Other>>
      [] k = "artist" -> <<Str("xesam:artist"), Other, Str("X"), Str("Y")>>
      [] k = "album" -> <<Str("xesam:album"), Str("Album Z")>>
      [] k = "length" -> <<Str("mpris:length"), I64(180000000)>>
      [] k = "albumArtist" -> <<Str("xesam:albumArtist"), Other, Str("V")>>
      [] k = "artUrl" -> <<Str("mpris:artUrl"), Str("http://cover")>>

\* The entries of a reply: distinct keys in some order.
FieldOrders ==
    {f \in UNION {[1..n -> FieldKeys] : n \in 0..MaxFields} :
        /\ \A i, j \in DOMAIN f : i # j => f[i] # f[j]
        /\ ~\E i, j \in DOMAIN f : f[i] = "title" /\ f[j] = "titleOdd"}

RECURSIVE ReplyTokens(_)
ReplyTokens(f) ==
    IF f = <<>> THEN <<>> ELSE FieldTokens(Head(f)) \o ReplyTokens(Tail(f))

\* The reply that holds the entries of f.
ReplyOf(f) == <<Other>> \o ReplyTokens(f)

\* The parse of _update_track_metadata runs on the reply with the entries f.
ParseReply(f) ==
    /\ last_step.op = "init"
    /\ last_step' = [Step("parse") EXCEPT !.fields = f, !.reply = ReplyOf(f),
                                          !.parsed = ParseMetadata(ReplyOf(f))]
    /\ UNCHANGED <<now_playing, fetch, volq, backend_volume, socket_server, sock_file,
                   main, conns, outbox, seen_failure, hung_up>>

(***************************************************************************)
(* Specifications.                                                          *)
(***************************************************************************)
Init ==
    /\ now_playing = InitialNowPlaying
    /\ fetch = EmptyBag
    /\ volq = EmptyBag
    /\ backend_volume = 7
    /\ socket_server = None
    /\ sock_file = "none"
    /\ main = [pc |-> "load", server |-> "none"]
    /\ conns = <<>>
    /\ outbox = <<>>
    /\ seen_failure = FALSE
    /\ hung_up = FALSE
    /\ last_step = Step("init")

\* No publication task waits to run.  A publication task reads the state
\* and writes nothing, so the specifications that are not about the
\* publications let it run right after the step that created it.
Published == outbox = <<>>

\* The state machine, fed the notifications that leave the volume alone,
\* and the metadata-fetch sequences it schedules.
Next ==
    \/ Published /\ \E e \in Events : Dispatch(e)
    \/ Published /\ \E t \in BagToSet(fetch) : FetchWake(t)
    \/ Published /\ \E t \in BagToSet(fetch), o \in FetchOutcomes : FetchAttempt(t, o)
    \/ Published /\ \E t \in BagToSet(fetch) : FetchBackoff(t)
    \/ EmitRun

Spec == Init /\ [][Next]_vars

\* What the event loop guarantees: a task that is ready runs, and a sleep
\* ends.  Nothing guarantees that the dbus-send process of an attempt ever
\* exits: await process.communicate() waits for it without a timeout.
Fairness ==
    /\ WF_vars(EmitRun)
    /\ WF_vars(Published /\ \E t \in BagToSet(fetch) : FetchWake(t))
    /\ WF_vars(Published /\ \E t \in BagToSet(fetch) : FetchBackoff(t))

SpecLive == Init /\ [][Next]_vars /\ Fairness

\* No volume call is under way.
Idle == volq = EmptyBag

\* The volume: its notification, the query that schedules, and the volume
\* calls of the frontend, one call at a time, while the volume changes at
\* the backend.  The volume is read and written by these alone.
NextVolume ==
    \/ Published /\ Idle /\ \E e \in VolumeEvents : Dispatch(e)
    \/ Published /\ Idle /\ \E v \in VolumeInputs : SetVolumeCall(v)
    \/ Published /\ Idle /\ GetVolumeCall
    \/ Published /\ \E c \in BagToSet(volq),
                        res \in ExchangeOutcomes("get") \cup ExchangeOutcomes("set") :
                            VolExchange(c, res)
    \/ Published /\ \E c \in BagToSet(volq) : VolResume(c)
    \/ Published /\ \E v \in BackendVolumes : BackendVolumeChange(v)
    \/ EmitRun

SpecVolume == Init /\ [][NextVolume]_vars

\* The arguments of the set_volume calls that overlap with volume queries.
OverlapInputs == {3, 15}

\* Volume calls that overlap: the queries that volumeset notifications start
\* and the set_volume calls of the frontend, with no other change of the
\* volume at the backend.
NextOverlap ==
    \/ Published /\ \E e \in VolumeEvents : Dispatch(e)
    \/ Published /\ \E v \in OverlapInputs : SetVolumeCall(v)
    \/ Published /\ \E c \in BagToSet(volq),
                        res \in ExchangeOutcomes("get") \cup ExchangeOutcomes("set") :
                            VolExchange(c, res)
    \/ Published /\ \E c \in BagToSet(volq) : VolResume(c)
    \/ EmitRun

SpecOverlap == Init /\ [][NextOverlap]_vars

\* The socket server and the connections of the hook.
NextIngress ==
    \/ Published /\ \E ok \in BOOLEAN : MainDeploy(ok)
    \/ Published /\ \E out \in StartOutcomes : StartServer(out)
    \/ Published /\ \E p \in Payloads : Accept(p)
    \/ Published /\ \E i \in DOMAIN conns :
                        \E n \in FirstSegments(conns[i].payload) : Read(i, n)
    \/ Published /\ \E i \in DOMAIN conns : ReadError(i)
    \/ Published /\ \E i \in DOMAIN conns : Finish(i)
    \/ EmitRun

SpecIngress == Init /\ [][NextIngress]_vars

\* The life of the plugin: _main and its start of the socket server, the
\* stop of it at unload, the transport controls of the frontend, and
\* notifications that move the playback state meanwhile.
NextLifecycle ==
    \/ Published /\ \E ok \in BOOLEAN : MainDeploy(ok)
    \/ Published /\ \E f \in {"stale", "other"} : PathTaken(f)
    \/ Published /\ \E out \in StartOutcomes : StartServer(out)
    \/ Published /\ \E ok \in BOOLEAN : MainRest(ok)
    \/ Published /\ \E removed \in BOOLEAN : StopServer(removed)
    \/ Published /\ \E m \in ControlMethods, o \in ControlOutcomes : Control(m, o)
    \/ Published /\ \E e \in PositionEvents : Dispatch(e)
    \/ EmitRun

SpecLifecycle == Init /\ [][NextLifecycle]_vars

\* One metadata-fetch sequence left alone: notifications arrive until the
\* first change has set a track, and none after it.
NextAlone ==
    \/ Published /\ now_playing.track = NoTrack /\ \E e \in Events : Dispatch(e)
    \/ Published /\ \E t \in BagToSet(fetch) : FetchWake(t)
    \/ Published /\ \E t \in BagToSet(fetch), o \in FetchOutcomes : FetchAttempt(t, o)
    \/ Published /\ \E t \in BagToSet(fetch) : FetchBackoff(t)
    \/ EmitRun

SpecAlone == Init /\ [][NextAlone]_vars

\* The peers that matter at a stop: one that sends a record, one that sends
\* nothing and one that never sends.
ShutdownPayloads ==
    {p \in Payloads : p.doc \in {"empty", "silent"} \/ (p.doc = "record" /\ p.docLen = 60)}

\* The socket server stopped while connections of the hook are open.
NextShutdown ==
    \/ Published /\ \E ok \in BOOLEAN : MainDeploy(ok)
    \/ Published /\ \E out \in StartOutcomes : StartServer(out)
    \/ Published /\ \E p \in ShutdownPayloads : Accept(p)
    \/ Published /\ \E i \in DOMAIN conns :
                        \E n \in FirstSegments(conns[i].payload) : Read(i, n)
    \/ Published /\ \E i \in DOMAIN conns : ReadError(i)
    \/ Published /\ \E i \in DOMAIN conns : Finish(i)
    \/ Published /\ \E removed \in BOOLEAN : StopServer(removed)
    \/ EmitRun

SpecShutdown == Init /\ [][NextShutdown]_vars

\* The parse of the Metadata reply, for every order of its entries.
NextParse ==
    \E f \in FieldOrders : ParseReply(f)

SpecParse == Init /\ [][NextParse]_vars

\* Discovery of the backend's bus name, for every list of names.
NextDiscover ==
    \E rc \in {0, 1}, lines \in NameLists : Discover(rc, lines)

SpecDiscover == Init /\ [][NextDiscover]_vars

\* The publications: notifications are processed while publication tasks
\* wait to run, in any interleaving.
NextPublish ==
    \/ \E e \in Events \cup VolumeEvents : Dispatch(e)
    \/ EmitRun

SpecPublish == Init /\ [][NextPublish]_vars

(***************************************************************************)
(* Claims.                                                                  *)
(***************************************************************************)
\* The step just taken processed a notification of one of the kinds.
Processed(step, kinds) ==
    step.op \in {"event", "conn_done"} /\ step.ok /\ EventType(step.event) \in kinds

ConnectingKinds ==
    {"session_connected", "sessionconnected", "track_changed", "change", "playing", "start"}

\* C1: connected is false in the state right after a session_disconnected
\* notification is processed, and it turns true again only by processing a
\* session-connect, a track-change or a play notification.
C1_DisconnectedUntilConnect ==
    [][ /\ Processed(last_step', {"session_disconnected"}) => ~now_playing'.connected
        /\ (~now_playing.connected /\ now_playing'.connected)
              => Processed(last_step', ConnectingKinds) ]_vars

\* The sequence whose attempt just ran was scheduled for another track than
\* the one the state held when it ran.
StaleMerge(step, track) ==
    step.op = "merge" /\ track # NoTrack /\ step.for_track # track.track_id

\* C2: an attempt of a metadata-fetch sequence that was scheduled for track
\* A and runs when a later change has made the track B leaves every field of
\* the track as it was.
C2_StaleMergeDiscarded ==
    [][ StaleMerge(last_step', now_playing.track)
            => now_playing'.track = now_playing.track ]_vars

\* C3: processing a change notification makes the track the record of the
\* notification's track id and duration, position_ms 0 and connected true,
\* and schedules one metadata-fetch sequence, asleep; no sequence ever
\* makes more than 3 attempts.
C3_Change ==
    /\ [][ Processed(last_step', {"change"}) =>
            /\ LET e == last_step'.event
               IN  ({"track_id", "duration_ms"} \subseteq DOMAIN e) =>
                      now_playing'.track =
                          [track_id |-> e.track_id, duration_ms |-> e.duration_ms]
            /\ DOMAIN now_playing'.track = {"track_id", "duration_ms"}
            /\ now_playing'.position_ms = 0
            /\ now_playing'.connected
            /\ BagCardinality(fetch') = BagCardinality(fetch) + 1
            /\ \E t \in BagToSet(fetch') :
                  /\ t.pc = "settle" /\ t.attempt = 0
                  /\ fetch' = fetch (+) SetToBag({t}) ]_vars
    /\ [](\A t \in BagToSet(fetch) : t.attempt <= 3)
    /\ [][ last_step'.op = "merge" => last_step'.attempt \in 1..3 ]_vars

\* C3 happens: a change is processed while an earlier sequence is at its
\* third attempt.
C3_Witness ==
    /\ Processed(last_step, {"change"})
    /\ last_step.event.track_id = "A"
    /\ now_playing.track = [track_id |-> "A", duration_ms |-> 200000]
    /\ \E t \in BagToSet(fetch) : t.attempt = 3 /\ t.pc = "attempt"
    /\ \E t \in BagToSet(fetch) : t.attempt = 0

\* C4: processing a track_changed notification with inline fields makes the
\* track the record of exactly those fields, position_ms 0 and connected
\* true, and schedules no query.
C4_TrackChangedInline ==
    Processed(last_step, {"track_changed"}) =>
        /\ now_playing.track =
              [name |-> last_step.event.name, artists |-> last_step.event.artists,
               album |-> last_step.event.album, cover_url |-> last_step.event.cover_url,
               duration_ms |-> last_step.event.duration_ms]
        /\ now_playing.position_ms = 0
        /\ now_playing.connected
        /\ last_step.spawned = "none"

\* min(1.0, max(0.0, v)), in tenths.
Clamped(v) == IF v > 10 THEN 10 ELSE IF v < 0 THEN 0 ELSE v

\* C5: the value set_volume(v) sends to the backend, and stores once the
\* exchange succeeded, is v clamped to [0.0, 1.0].
C5_SetVolumeClamps ==
    /\ \A c \in BagToSet(volq) : c.kind = "set" => c.arg = Clamped(c.input)
    /\ (last_step.op = "volume_exchange" /\ last_step.kind = "set" /\ last_step.ok)
          => backend_volume = Clamped(last_step.input)
    /\ (last_step.op = "volume_return" /\ last_step.kind = "set" /\ last_step.ok)
          => now_playing.volume = Clamped(last_step.input)

\* C5 happens: set_volume(1.5) has succeeded and stored 1.0.
C5_Witness ==
    /\ last_step.op = "volume_return" /\ last_step.kind = "set" /\ last_step.ok
    /\ last_step.input = 15
    /\ now_playing.volume = 10

\* C6: a set_volume that fails returns False, leaves the state as it was and
\* publishes nothing; one that succeeds returns True, stores and publishes;
\* and no other step of a set_volume call changes the state.
C6_SetVolumeFailure ==
    [][ last_step'.kind = "set" =>
          IF last_step'.op = "volume_return"
          THEN IF last_step'.decoded = "ok"
               THEN /\ last_step'.ok /\ last_step'.emitted
                    /\ now_playing' = [now_playing EXCEPT !.volume = last_step'.arg]
               ELSE /\ ~last_step'.ok /\ ~last_step'.emitted
                    /\ now_playing' = now_playing
          ELSE ~last_step'.emitted /\ now_playing' = now_playing ]_vars

\* C6 happens: a set_volume whose exchange failed has returned, and the
\* stored volume is not its argument.
C6_Witness ==
    /\ last_step.op = "volume_return" /\ last_step.kind = "set"
    /\ last_step.decoded \in {"failed", "raised", "nobus"}
    /\ ~last_step.ok
    /\ now_playing.volume # last_step.arg

\* The reply holds no artist marker.
NoArtistMarker(out) == \A i \in 1..Len(out) : out[i].v # "xesam:artist"

\* C7: the parse of a reply with no artist marker has no artists entry, and
\* merging it leaves the artists the track had.
C7_ArtistsPreserved ==
    [][ (last_step'.op = "merge" /\ last_step'.decoded = "reply"
         /\ NoArtistMarker(last_step'.reply)) =>
            /\ "artists" \notin DOMAIN ParseMetadata(last_step'.reply)
            /\ last_step'.ok
            /\ "artists" \in DOMAIN now_playing.track =>
                  /\ "artists" \in DOMAIN now_playing'.track
                  /\ now_playing'.track.artists = now_playing.track.artists ]_vars

\* C7 happens: a reply with no artist marker but a title has been merged
\* into a track that had artists, and it has them still.
C7_Witness ==
    /\ last_step.op = "merge" /\ last_step.ok
    /\ NoArtistMarker(last_step.reply)
    /\ "name" \in DOMAIN now_playing.track
    /\ now_playing.track.name = "Song B"
    /\ "artists" \in DOMAIN now_playing.track
    /\ now_playing.track.artists = <<"X", "Y">>

\* The payload is empty, or no UTF-8 JSON, or no record, or longer than the
\* read bound.
Unfit(p) ==
    \/ p.doc \in {"empty", "badjson", "badutf8", "nonrecord"}
    \/ TotalLen(p) > 4096

\* C8: a connection whose payload is unfit reaches no consumer: its handler
\* leaves the state as it was and publishes nothing.
C8_UnfitPayloadDropped ==
    [][ (last_step'.op = "conn_done" /\ Unfit(last_step'.payload)) =>
            /\ ~last_step'.ok
            /\ ~last_step'.emitted
            /\ now_playing' = now_playing ]_vars

\* The handler of a connection ended without a notification processed.
Failed(step) == step.op = "conn_done" /\ ~step.ok

\* The first got bytes hold the whole record of the payload and, after it,
\* white space at most.
WholeRecord(p, got) == p.doc = "record" /\ got >= p.docLen /\ p.trail \in {"none", "space"}

\* C9: a failed connection leaves the server listening and the other
\* connections as they were, and a whole record read on a connection that
\* was accepted after a failure is processed like any other.
C9_FailureLeavesServer ==
    /\ [][ Failed(last_step') =>
            /\ socket_server' = "server"
            /\ \E i \in DOMAIN conns : conns' = Leave(conns, i)
            /\ now_playing' = now_playing ]_vars
    /\ [](seen_failure => socket_server = "server")
    /\ [][ (last_step'.op = "conn_done" /\ last_step'.after_failure
            /\ last_step'.decoded # "raised"
            /\ WholeRecord(last_step'.payload, last_step'.got)) =>
               /\ last_step'.ok /\ last_step'.emitted
               /\ now_playing' = ProcessEventState(now_playing, last_step'.payload.event) ]_vars

\* C9 happens: while one connection stays silent and after another failed,
\* the notification of a connection accepted since has changed the state.
C9_Witness ==
    /\ seen_failure
    /\ \E i \in DOMAIN conns : conns[i].payload.doc = "silent"
    /\ last_step.op = "conn_done" /\ last_step.ok /\ last_step.after_failure
    /\ now_playing.playback_state = "playing"

\* C10: a record of at most 4096 bytes that the peer wrote whole before
\* closing is processed, however its bytes arrived.
C10_WrittenIsDelivered ==
    (/\ last_step.op = "conn_done"
     /\ last_step.decoded # "raised"
     /\ last_step.payload.doc = "record"
     /\ last_step.payload.trailLen = 0
     /\ TotalLen(last_step.payload) <= 4096) => last_step.ok

\* The step just taken ended a handler that had read its connection.
Resumed(step) == step.op = "conn_done" /\ step.decoded # "raised"

\* C11: handlers go on to _process_event in the order in which their reads
\* completed: the handler that resumes is the one whose read completed
\* first among all those that wait for their connection to close.
C11_DispatchedInReadOrder ==
    [][ Resumed(last_step') =>
          /\ last_step'.slot \in Closing(conns)
          /\ conns[last_step'.slot].payload = last_step'.payload
          /\ \A j \in Closing(conns) : conns[last_step'.slot].turn <= conns[j].turn
          /\ last_step'.turn = 1 ]_vars

\* C11 happens: of two connections the one accepted second was read first,
\* and its notification has been applied while the handler of the other
\* still waits for its connection to close.
C11_Witness ==
    /\ Resumed(last_step) /\ last_step.ok
    /\ last_step.slot = 2 /\ last_step.turn = 1
    /\ EventType(last_step.event) = "start"
    /\ now_playing.playback_state = "playing"
    /\ Len(conns) = 1 /\ conns[1].pc = "closing"
    /\ conns[1].payload.doc = "record"
    /\ EventType(conns[1].payload.event) = "pause"
    /\ conns[1].got = conns[1].payload.docLen

\* The step just taken processed a notification, of whatever kind.
ProcessedAny(step) == step.op \in {"event", "conn_done"} /\ step.ok

\* C12: every processed notification, of whatever kind, creates one
\* publication, behind those created before it; the publications are sent
\* oldest first, each carrying the whole playback state; and a notification
\* is processed without any publication being sent first.
C12_PublishedInOrder ==
    [][ /\ ProcessedAny(last_step') =>
              /\ last_step'.emitted
              /\ Len(outbox') = Len(outbox) + 1
              /\ outbox'[Len(outbox')] = [written |-> FALSE]
        /\ last_step'.op = "emit" =>
              /\ outbox # <<>> /\ outbox' = Tail(outbox)
              /\ last_step'.sent = now_playing'
              /\ DOMAIN last_step'.sent = DOMAIN InitialNowPlaying
              /\ now_playing' = now_playing ]_vars

\* C12 happens: a notification of an unknown kind has been processed while
\* the publication of an earlier notification had not been sent, and both
\* publications wait in the order of their notifications.
C12_Witness ==
    /\ Processed(last_step, {"seeked"})
    /\ Len(outbox) = 2
    /\ outbox[2] = [written |-> FALSE]
    /\ now_playing.playback_state = "playing"

\* C13: in the state right after a session_disconnected notification is
\* processed, connected is false, user_name and connection_id are both
\* none, track is none and playback_state is stopped.
C13_SessionDisconnected ==
    Processed(last_step, {"session_disconnected"}) =>
        /\ ~now_playing.connected
        /\ now_playing.user_name = None
        /\ now_playing.connection_id = None
        /\ now_playing.track = NoTrack
        /\ now_playing.playback_state = "stopped"

\* C14: an attempt of a metadata-fetch sequence that resolves after a
\* session_disconnected notification was processed, with no notification
\* since, leaves track none and connected false.
C14_DisconnectWinsOverMerge ==
    [][ (hung_up /\ last_step'.op = "merge") =>
            /\ now_playing'.track = NoTrack
            /\ ~now_playing'.connected ]_vars

\* The step just taken was a call of _stop_socket_server.
Stopped(step) == step.op = "stop_server"

\* Nothing but the server and the socket file differs between the two states.
StopFrame(np, np2, m, m2, cs, cs2) == np2 = np /\ m2 = m /\ cs2 = cs

C16_StartOnLiveAddress ==
    [][ last_step'.op = "start_server" =>
          /\ sock_file = "other" =>
                (~last_step'.ok /\ sock_file' = "other" /\ socket_server' = None)
          /\ (sock_file = "stale" /\ last_step'.ok) => sock_file' = "ours" ]_vars

\* C17: a start that fails stores no server and lets _main go on to its
\* remaining steps, which can then run, and every transport control can
\* still be called.
C17_StartFailureNotFatal ==
    /\ [][ (last_step'.op = "start_server" /\ ~last_step'.ok) =>
              /\ socket_server' = None
              /\ main' = [pc |-> "setup", server |-> "failed"]
              /\ now_playing' = now_playing ]_vars
    /\ []((main.server = "failed" /\ main.pc = "setup" /\ Published)
              => ENABLED MainRest(TRUE))
    /\ []((main.server = "failed" /\ Published) =>
              \A m \in ControlMethods : ENABLED Control(m, [bus |-> "found", exchange |-> "zero"]))

\* C17 happens: the start failed, _main has run to its end, and a transport
\* control called since has returned True.
C17_Witness ==
    /\ main = [pc |-> "done", server |-> "failed"]
    /\ socket_server = None
    /\ last_step.op = "control" /\ last_step.ok

\* C18: a transport control returns True exactly when the bus name was
\* found and the method call ended with return code zero, and it leaves the
\* playback state and the tasks as they were.
C18_ControlResult ==
    [][ last_step'.op = "control" =>
          /\ last_step'.kind \in {"PlayPause", "Next", "Previous"}
          /\ last_step'.ok <=>
                (last_step'.decoded = "found" /\ last_step'.exchange = "zero")
          /\ now_playing' = now_playing
          /\ fetch' = fetch /\ volq' = volq /\ outbox' = outbox ]_vars

\* C18 happens: next_track found the bus name, its method call ended with
\* a non-zero return code, and it returned False while the player plays.
C18_Witness ==
    /\ last_step.op = "control" /\ last_step.kind = "Next"
    /\ last_step.decoded = "found" /\ last_step.exchange = "nonzero"
    /\ ~last_step.ok
    /\ now_playing.playback_state = "playing"

\* C19: every bus exchange completes, by a reply, a failure or a timeout:
\* time and again no metadata-fetch sequence is waiting in an attempt.
C19_ExchangesComplete ==
    []<>(\A t \in BagToSet(fetch) : t.pc # "attempt")

\* The text begins with the prefix.
BeginsWithPrefix(text) == text[1] = "prefix"

\* The listed names: the quoted strings of the reply, in order.
ListedNames(lines) ==
    LET IsName(l) == l.string
        ls == SelectSeq(lines, IsName)
    IN  [i \in DOMAIN ls |-> ls[i].text]

\* C20: when the names are listed, discovery returns the first listed name
\* that begins with the prefix, and no name when none begins with it.
C20_DiscoveryByPrefix ==
    (last_step.op = "discover" /\ last_step.val = 0) =>
        LET names == ListedNames(last_step.names)
            hits == {i \in DOMAIN names : BeginsWithPrefix(names[i])}
        IN  IF hits = {} THEN last_step.found = NoName
            ELSE last_step.found = names[Min(hits)]

\* The entries f hold the key k.
Holds(f, k) == \E i \in DOMAIN f : f[i] = k

\* What the claim expects of the parse: the parsed field of an entry, and
\* its value.
ExpectedField(k) ==
    CASE k = "title" -> <<"name", "Song A">>
      [] k = "artist" -> <<"artists", <<"X", "Y">> >>
      [] k = "album" -> <<"album", "Album Z">>
      [] k = "length" -> <<"duration_ms", 180000>>

\* C21: the parse of a reply gives, for each of the entries title, artist,
\* album and length that the reply holds, the value of that entry (the
\* length divided by 1000), whatever the order of the entries.
C21_ParseByMarker ==
    last_step.op = "parse" =>
        \A k \in {"title", "artist", "album", "length"} :
            Holds(last_step.fields, k) =>
                /\ ExpectedField(k)[1] \in DOMAIN last_step.parsed
                /\ last_step.parsed[ExpectedField(k)[1]] = ExpectedField(k)[2]

\* C22: in every reachable state the stored volume lies in [0.0, 1.0],
\* whatever volumeset notifications, get_volume queries and set_volume calls
\* came before and whatever value the backend returned.
C22_VolumeInRange ==
    now_playing.volume >= VolumeMin /\ now_playing.volume <= VolumeMax

\* The step just taken belongs to a get_volume call of the frontend, or to
\* the handling of a connection short of processing its notification.
ReadOrIngress(step) ==
    \/ step.kind = "get"
    \/ step.op \in {"accept", "read"}
    \/ step.op = "conn_done" /\ ~step.ok

\* C23: no step of a get_volume call of the frontend, and no step of the
\* handling of a connection itself, changes a field of the playback state.
C23_ReadsLeaveState ==
    [][ ReadOrIngress(last_step') => now_playing' = now_playing ]_vars

\* The kinds of notification the two backends are known to send.
RecognisedKinds ==
    {"session_connected", "sessionconnected", "session_disconnected", "track_changed",
     "change", "playing", "start", "paused", "pause", "stopped", "stop", "endoftrack",
     "volumeset"}

\* C24: processing a notification whose kind is none of the recognised ones
\* leaves every field of the playback state as it was and schedules neither
\* a metadata-fetch sequence nor a volume query.
C24_UnknownKindIgnored ==
    [][ (last_step'.op = "event" /\ EventType(last_step'.event) \notin RecognisedKinds) =>
            /\ now_playing' = now_playing
            /\ fetch' = fetch
            /\ volq' = volq
            /\ last_step'.spawned = "none" ]_vars

\* C24 happens: a notification of an unknown kind was processed while a
\* track plays.
C24_Witness ==
    /\ last_step.op = "event"
    /\ EventType(last_step.event) = "seeked"
    /\ now_playing.playback_state = "playing"
    /\ now_playing.track # NoTrack

\* The kind of the other vocabulary that stands for the same transition.
Counterpart(kind) ==
    CASE kind = "playing" -> "start"
      [] kind = "paused" -> "pause"
      [] kind \in {"stopped", "endoftrack"} -> "stop"
      [] kind = "session_connected" -> "sessionconnected"
      [] OTHER -> kind

\* C25: processing playing yields the state that processing start with the
\* same fields yields from the same state; likewise paused and pause,
\* stopped, endoftrack and stop, session_connected and sessionconnected.
C25_VocabulariesAgree ==
    [][ (last_step'.op = "event" /\ "event" \in DOMAIN last_step'.event) =>
            now_playing' =
                ProcessEventState(now_playing,
                    [last_step'.event EXCEPT !.event = Counterpart(@)]) ]_vars

\* The time a sequence has slept when it makes its k-th attempt: the settle
\* delay and a backoff after each attempt before.
SleptBefore(k) == SettleDelay + (k - 1) * Backoff

\* The sequence the step just taken belongs to, as it was before the step.
SequenceAt(step, pc) ==
    [pc |-> pc, attempt |-> step.attempt, for_track |-> step.for_track,
     slept |-> step.slept]

\* C26: a sequence that has not slept its settle delay of 1.0 has made no
\* attempt; its k-th attempt is made when it has slept 1.0 and k - 1 times
\* 0.5, one backoff after each failed attempt; a successful attempt ends the
\* sequence, a failed one makes it sleep; and there are at most 3 attempts.
C26_FetchSchedule ==
    /\ [](\A t \in BagToSet(fetch) :
            /\ t.pc = "settle" => t.attempt = 0 /\ t.slept = 0
            /\ t.pc \in {"attempt", "backoff"} =>
                    t.attempt \in 1..3 /\ t.slept = SleptBefore(t.attempt))
    /\ [][ last_step'.op = "merge" =>
            /\ last_step'.attempt \in 1..3
            /\ last_step'.slept = SleptBefore(last_step'.attempt)
            /\ BagIn(SequenceAt(last_step', "attempt"), fetch)
            /\ IF last_step'.ok
               THEN fetch' = Take(fetch, SequenceAt(last_step', "attempt"))
               ELSE fetch' = Swap(fetch, SequenceAt(last_step', "attempt"),
                                  SequenceAt(last_step', "backoff")) ]_vars
    /\ [][ \A t \in BagToSet(fetch') :
            (t.pc = "attempt" /\ CopiesIn(t, fetch') > CopiesIn(t, fetch)) =>
                \/ /\ last_step'.op = "fetch_wake"
                   /\ BagIn([t EXCEPT !.pc = "settle", !.attempt = 0, !.slept = 0], fetch)
                \/ /\ last_step'.op = "fetch_backoff"
                   /\ BagIn([t EXCEPT !.pc = "backoff", !.attempt = @ - 1,
                                      !.slept = @ - Backoff], fetch) ]_vars

\* C26 happens: the third attempt of a sequence succeeds, after two failed
\* ones, when the sequence has slept 2.0.
C26_Witness ==
    /\ last_step.op = "merge" /\ last_step.ok
    /\ last_step.attempt = 3
    /\ last_step.slept = 20
    /\ fetch = EmptyBag

\* C27: an attempt that fails because discovery finds no bus name or the
\* exchange fails changes nothing and publishes nothing, and the sequence
\* sleeps on; when the third attempt has failed and no notification came
\* after the change, the sequence is over, nothing waits to be published,
\* and the track is the record of the id and duration the change set.
C27_GiveUpSilently ==
    /\ [][ (last_step'.op = "merge" /\ last_step'.decoded \in {"nobus", "failed"}) =>
            /\ ~last_step'.ok /\ ~last_step'.emitted
            /\ now_playing' = now_playing
            /\ outbox' = outbox
            /\ BagIn(SequenceAt(last_step', "backoff"), fetch') ]_vars
    /\ [][ last_step'.op = "fetch_backoff" =>
            ~last_step'.emitted /\ now_playing' = now_playing /\ outbox' = outbox ]_vars
    /\ []((last_step.op = "fetch_backoff" /\ last_step.attempt = 3) =>
            /\ fetch = EmptyBag
            /\ outbox = <<>>
            /\ \E e \in ChangeEvents :
                  /\ e.track_id = last_step.for_track
                  /\ now_playing.track = ChangeTrack(e)
            /\ DOMAIN now_playing.track = {"track_id", "duration_ms"})

\* C27 happens: the sequence scheduled for track A is over after its third
\* attempt failed, and the track holds the id and the duration.
C27_Witness ==
    /\ last_step.op = "fetch_backoff" /\ last_step.attempt = 3
    /\ last_step.for_track = "A"
    /\ fetch = EmptyBag
    /\ now_playing.track = [track_id |-> "A", duration_ms |-> 200000]

\* The keys of the entries a Metadata reply may hold.
EntryKeys ==
    {"xesam:title", "xesam:artist", "xesam:album", "xesam:albumArtist",
     "mpris:length", "mpris:artUrl"}

\* The reply has an entry under the key.
HasEntry(out, key) == \E i \in 1..Len(out) : out[i] = Str(key)

\* The value of the reply's entry under the key: what follows the key up to
\* the key of the next entry.
EntryValue(out, key) ==
    LET p == Min({i \in 1..Len(out) : out[i] = Str(key)})
        later == {i \in (p + 1)..Len(out) : IsString(out[i]) /\ out[i].v \in EntryKeys}
        q == IF later = {} THEN Len(out) + 1 ELSE Min(later)
    IN  SubSeq(out, p + 1, q - 1)

\* The track fields a reply gives a value for.
ReplyKeys(out) ==
    {k \in {"name", "album", "cover_url"} :
        HasEntry(out, ScalarMarker(k)) /\ HasString(EntryValue(out, ScalarMarker(k)))}
    \cup (IF HasEntry(out, "xesam:artist")
             /\ HasString(EntryValue(out, "xesam:artist"))
          THEN {"artists"} ELSE {})
    \cup (IF HasEntry(out, "mpris:length") /\ HasInt64(EntryValue(out, "mpris:length"))
          THEN {"duration_ms"} ELSE {})

\* The value a reply gives for a track field.
ReplyField(out, k) ==
    CASE k = "artists" -> StringsOf(EntryValue(out, "xesam:artist"))
      [] k = "duration_ms" ->
            SelectSeq(EntryValue(out, "mpris:length"), IsInt64)[1].n \div UsPerMs
      [] OTHER -> FirstString(EntryValue(out, ScalarMarker(k)))

\* C28: a successful metadata query makes each field the reply gives a
\* value for that value in the existing track, keeps every other field of
\* the track, the track id among them, and publishes the state once.
C28_MergeOverwritesReplyFields ==
    [][ (last_step'.op = "merge" /\ last_step'.ok /\ now_playing.track # NoTrack) =>
            /\ now_playing'.track =
                  [k \in DOMAIN now_playing.track \cup ReplyKeys(last_step'.reply) |->
                      IF k \in ReplyKeys(last_step'.reply)
                      THEN ReplyField(last_step'.reply, k)
                      ELSE now_playing.track[k]]
            /\ last_step'.emitted ]_vars

\* C29: processing session_connected or sessionconnected makes connected
\* true, stores the user name and the connection id the notification
\* carries, and leaves every other field as it was.
C29_SessionConnect ==
    [][ Processed(last_step', {"session_connected", "sessionconnected"}) =>
            now_playing' =
                [now_playing EXCEPT
                    !.connected = TRUE,
                    !.user_name = Get(last_step'.event, "user_name", @),
                    !.connection_id = Get(last_step'.event, "connection_id", @)] ]_vars

\* C30: processing start or playing makes playback_state playing and
\* connected true, takes position_ms from the notification when it carries
\* one, and leaves track and volume as they were.
C30_Start ==
    [][ Processed(last_step', {"start", "playing"}) =>
            /\ now_playing'.playback_state = "playing"
            /\ now_playing'.connected
            /\ "position_ms" \in DOMAIN last_step'.event =>
                    now_playing'.position_ms = last_step'.event.position_ms
            /\ now_playing'.track = now_playing.track
            /\ now_playing'.volume = now_playing.volume ]_vars

\* What the start branch alone satisfies: C30 without playing.
C30_StartOnly ==
    [][ Processed(last_step', {"start"}) =>
            /\ now_playing'.playback_state = "playing"
            /\ now_playing'.connected
            /\ "position_ms" \in DOMAIN last_step'.event =>
                    now_playing'.position_ms = last_step'.event.position_ms
            /\ now_playing'.track = now_playing.track
            /\ now_playing'.volume = now_playing.volume ]_vars

\* C31: processing pause or paused makes playback_state paused and
\* position_ms the position the notification carries, and leaves connected,
\* track and volume as they were.
C31_Pause ==
    [][ Processed(last_step', {"pause", "paused"}) =>
            /\ now_playing'.playback_state = "paused"
            /\ "position_ms" \in DOMAIN last_step'.event =>
                    now_playing'.position_ms = last_step'.event.position_ms
            /\ now_playing'.connected = now_playing.connected
            /\ now_playing'.track = now_playing.track
            /\ now_playing'.volume = now_playing.volume ]_vars

\* What the pause branch alone satisfies: C31 without paused.
C31_PauseOnly ==
    [][ Processed(last_step', {"pause"}) =>
            /\ now_playing'.playback_state = "paused"
            /\ "position_ms" \in DOMAIN last_step'.event =>
                    now_playing'.position_ms = last_step'.event.position_ms
            /\ now_playing'.connected = now_playing.connected
            /\ now_playing'.track = now_playing.track
            /\ now_playing'.volume = now_playing.volume ]_vars

\* C32: processing stop, stopped or endoftrack makes playback_state stopped
\* and position_ms 0, and leaves connected, track and volume as they were.
C32_Stop ==
    [][ Processed(last_step', {"stop", "stopped", "endoftrack"}) =>
            /\ now_playing'.playback_state = "stopped"
            /\ now_playing'.position_ms = 0
            /\ now_playing'.connected = now_playing.connected
            /\ now_playing'.track = now_playing.track
            /\ now_playing'.volume = now_playing.volume ]_vars

\* What the stop branch alone satisfies: C32 without stopped.
C32_StopOnly ==
    [][ Processed(last_step', {"stop", "endoftrack"}) =>
            /\ now_playing'.playback_state = "stopped"
            /\ now_playing'.position_ms = 0
            /\ now_playing'.connected = now_playing.connected
            /\ now_playing'.track = now_playing.track
            /\ now_playing'.volume = now_playing.volume ]_vars

\* The volume query that a volumeset notification starts.
UpdateCall(pc, res, val) ==
    [kind |-> "update", pc |-> pc, input |-> 0, arg |-> 0, res |-> res, val |-> val]

\* C33: processing volumeset changes no field and starts one volume query,
\* at once; the query reads the backend's volume; when it succeeded the
\* stored volume becomes the value read and the state is published, and
\* when it found no bus name or its exchange failed the stored volume stays.
C33_VolumeSet ==
    /\ [][ Processed(last_step', {"volumeset"}) =>
            /\ now_playing' = now_playing
            /\ last_step'.spawned = "volume"
            /\ volq' = volq (+) SetToBag({UpdateCall("calling", "none", 0)})
            /\ fetch' = fetch ]_vars
    /\ [][ (last_step'.op = "volume_exchange" /\ last_step'.kind = "update"
             /\ last_step'.decoded = "value") =>
                BagIn(UpdateCall("answered", "value", backend_volume), volq') ]_vars
    /\ [][ (last_step'.op = "volume_return" /\ last_step'.kind = "update") =>
            /\ last_step'.decoded = "value" =>
                  /\ BagIn(UpdateCall("answered", "value", now_playing'.volume), volq)
                  /\ last_step'.emitted
            /\ last_step'.decoded \in {"nobus", "failed"} =>
                  now_playing'.volume = now_playing.volume
            /\ now_playing' = [now_playing EXCEPT !.volume = now_playing'.volume] ]_vars

\* C33 happens: the query of a volumeset has failed and returned while the
\* stored volume is not the initial one.
C33_Witness ==
    /\ last_step.op = "volume_return" /\ last_step.kind = "update"
    /\ last_step.decoded \in {"nobus", "failed"}
    /\ now_playing.volume = 7

\* The server was started and _stop_socket_server has returned since.
ServerStopped == main.server = "ok" /\ socket_server = None

\* C34: once the stop of the server has returned, no handler of a
\* connection is left, and no notification is processed any more.
C34_StopReleasesConnections ==
    /\ [](ServerStopped => conns = <<>>)
    /\ [][ ServerStopped => ~(last_step'.op = "conn_done" /\ last_step'.ok) ]_vars

\* The second half of C34 alone: no notification is processed after the stop.
C34_NoDispatchAfterStop ==
    [][ ServerStopped => ~(last_step'.op = "conn_done" /\ last_step'.ok) ]_vars

\* C35: when the reply holds a title entry whose value is no string, the
\* parse has no name, and the artist, album and length entries of the reply
\* are parsed all the same.
C35_NonStringSkipped ==
    (last_step.op = "parse" /\ Holds(last_step.fields, "titleOdd")) =>
        /\ "name" \notin DOMAIN last_step.parsed
        /\ \A k \in {"artist", "album", "length"} :
              Holds(last_step.fields, k) => ExpectedField(k)[1] \in DOMAIN last_step.parsed

\* C36: the parsed artists are exactly the strings of the artist array,
\* whichever entry follows it in the reply: neither the key of the next
\* entry nor any string after it is among them.
C36_ArtistsStopAtNextEntry ==
    (last_step.op = "parse" /\ Holds(last_step.fields, "artist")) =>
        /\ "artists" \in DOMAIN last_step.parsed
        /\ last_step.parsed.artists = StringsOf(EntryValue(last_step.reply, "xesam:artist"))

\* What the artist loop does satisfy: C36 when the entry after the artists
\* has a key that starts with xesam:, or when there is none.
C36_ArtistsBeforeXesam ==
    (/\ last_step.op = "parse"
     /\ \E i \in DOMAIN last_step.fields :
           /\ last_step.fields[i] = "artist"
           /\ i < Len(last_step.fields) =>
                 last_step.fields[i + 1] \in {"title", "titleOdd", "album", "albumArtist"}) =>
        /\ "artists" \in DOMAIN last_step.parsed
        /\ last_step.parsed.artists = StringsOf(EntryValue(last_step.reply, "xesam:artist"))

\* The track is a record with this track id.
HasTrackId(track, id) == "track_id" \in DOMAIN track /\ track.track_id = id

\* C37: the track is none or has the track id of the change processed last:
\* processing a change makes the track id that of the change, and no other
\* step, the attempts of overlapping sequences among them, gives the track
\* another id than it had.
C37_TrackIdOfLastChange ==
    [][ IF Processed(last_step', {"change"})
        THEN HasTrackId(now_playing'.track, Get(last_step'.event, "track_id", ""))
        ELSE \/ now_playing'.track = NoTrack
             \/ /\ now_playing.track # NoTrack
                /\ HasTrackId(now_playing.track, now_playing.track.track_id)
                /\ HasTrackId(now_playing'.track, now_playing.track.track_id) ]_vars

\* C37 happens: a change to B was processed while the sequence for A was
\* under way, and an attempt of that sequence has merged its reply since.
C37_Witness ==
    /\ last_step.op = "merge" /\ last_step.ok
    /\ last_step.for_track = "A"
    /\ HasTrackId(now_playing.track, "B")
    /\ "name" \in DOMAIN now_playing.track
    /\ \E t \in BagToSet(fetch) : t.for_track = "B"

\* C38: an attempt of a metadata-fetch sequence, whether it succeeds or
\* fails, changes no field of the playback state but track.
C38_MergeFrame ==
    [][ last_step'.op = "merge" =>
            now_playing' = [now_playing EXCEPT !.track = now_playing'.track] ]_vars

\* C38 happens: a pause at 7000 was processed during the fetch, and the
\* merge that followed has filled the track.
C38_Witness ==
    /\ last_step.op = "merge" /\ last_step.ok
    /\ "name" \in DOMAIN now_playing.track
    /\ now_playing.playback_state = "paused"
    /\ now_playing.position_ms = 7000

\* C39: the state a publication carries is the state as it was when the
\* step that created the publication had run: the state object is not
\* written to between the creation of a publication task and its run.
C39_PublishedAsProduced ==
    last_step.op = "emit" => ~last_step.written

\* C40: when set_volume(v) has succeeded and the volume query that
\* overlapped with it completes next, with no call left under way and no
\* other change of the volume at the backend, the stored volume is v
\* clamped: a value the query read before the set took effect does not
\* replace it.
C40_SetNotOverwritten ==
    [][ (/\ last_step.op = "volume_return" /\ last_step.kind = "set" /\ last_step.ok
         /\ last_step'.op = "volume_return" /\ last_step'.kind = "update"
         /\ volq' = EmptyBag) =>
            now_playing'.volume = Clamped(last_step.input) ]_vars

====
